---- MODULE Spec2Model ----
(***************************************************************************)
(* A model of python-mock-firestore's path resolution core:                *)
(*   - the nested-dictionary helpers of mockfirestore/_helpers.py          *)
(*     (get_by_path, set_by_path, delete_by_path, get_document_iterator),  *)
(*   - the field-path lexer and parser of mockfirestore/_helpers.py        *)
(*     (_tokenize_field_path, split_field_path, parse_field_path),         *)
(*   - the client of mockfirestore/client.py (MockFirestore.document,      *)
(*     .collection, .reset, ._ensure_path).                                *)
(*                                                                         *)
(* Python values are modelled as records: a dict is [t |-> "map", m |-> f] *)
(* with f a function from its keys, any other value is [t |-> "val", ...]. *)
(* A call's outcome is Return(value) or Raise(exception type, args).       *)
(* Strings that the code scans character by character are sequences of     *)
(* one-character strings.                                                  *)
(***************************************************************************)
EXTENDS Integers, Sequences, FiniteSets, TLC

VARIABLES
    data,       \* SpecStore: the root dict the helpers work on
    path,       \* SpecStore: the path argument, a sequence of keys
    value,      \* SpecStore: the value argument of set_by_path
    hist,       \* SpecStore: the calls made so far, each with the data it
                \* started on (pre) and its outcome (out)
    cin,        \* SpecSplit: the field-path string handed to the codec;
                \* SpecRoundTrip: the field names handed to field_path
    cout,       \* SpecSplit, SpecRoundTrip: the codec calls made so far, each
                \* with its outcome
    document,   \* SpecIter: the document handed to get_document_iterator
    items,      \* SpecIter: the calls made so far, each with the pairs yielded
    heap,       \* SpecClient: the dicts ever bound to MockFirestore._data,
                \* each known by its index, the identity of the object
    self_data,  \* SpecClient: the dict self._data is bound to, an index of heap
    last,       \* SpecClient: the last call of the client: its arguments, the
                \* dict self._data was bound to before it (pre_data) and that
                \* dict's content then (pre), and its outcome (out)
    held,       \* SpecClient: the reference the caller got from the call
                \* before the last one, if it returned one
    ncalls      \* SpecClient: the number of calls made

storeVars == <<data, path, value, hist>>
codecVars == <<cin, cout>>
iterVars == <<document, items>>
clientVars == <<heap, self_data, last, held, ncalls>>
vars == <<storeVars, codecVars, iterVars, clientVars>>

\* ------------------------------------------------------------------ bounds

\* Deepest nesting of the dicts the helpers are started on.
MaxDepth == 2
\* Longest field-path string handed to the lexer.
MaxStrLen == 5
\* Longest field name, and most field names, handed to field_path.
MaxNameLen == 2
MaxNames == 2
\* Deepest nesting of the documents handed to get_document_iterator.
MaxDocDepth == 3
\* Longest location path string handed to the client, and most calls made.
MaxPathChars == 4
MaxCalls == 2

\* ------------------------------------------------------------ Python values

Keys == {"a", "b"}

Scalar(v) == [t |-> "val", v |-> v]
Dict(f) == [t |-> "map", m |-> f]
EmptyDict == Dict(<<>>)
None == [t |-> "none"]
IsDict(x) == x.t = "map"

Return(v) == [kind |-> "return", val |-> v]
Raise(type, args) == [kind |-> type, args |-> args]
Returned(out) == out.kind = "return"

\* A key is a one-character string; Str(k) is it as a sequence of characters.
Str(k) == <<k>>

\* d[k] = v on a dict's mapping
Put(f, k, v) == [j \in DOMAIN f \cup {k} |-> IF j = k THEN v ELSE f[j]]
\* del d[k] on a dict's mapping
Del(f, k) == [j \in DOMAIN f \ {k} |-> f[j]]

\* path[:-1] and path[-1]
ButLast(p) == SubSeq(p, 1, Len(p) - 1)
Last(p) == p[Len(p)]

RECURSIVE ValuesUpTo(_)
ValuesUpTo(d) ==
    IF d = 0 THEN {Scalar("x")}
    ELSE LET below == ValuesUpTo(d - 1)
         IN  below \cup {Dict(f) : f \in UNION {[S -> below] : S \in SUBSET Keys}}

Roots == {x \in ValuesUpTo(MaxDepth) : IsDict(x)}
Paths == UNION {[1..n -> Keys] : n \in 0..(MaxDepth + 1)}
SetValues == {Scalar("y"), Dict([k \in {"a"} |-> Scalar("y")])}

\* ------------------------------------------------- _helpers.py: NestedStore

\* reduce(operator.getitem, path, a): a[k] raises KeyError(k) on a dict that
\* lacks k, and TypeError on a value that is no dict.
RECURSIVE reduce_getitem(_, _)
reduce_getitem(a, p) ==
    IF p = <<>> THEN Return(a)
    ELSE IF ~IsDict(a) THEN Raise("TypeError", <<>>)
    ELSE IF Head(p) \notin DOMAIN a.m THEN Raise("KeyError", <<Str(Head(p))>>)
    ELSE reduce_getitem(a.m[Head(p)], Tail(p))

\* reduce(get_or_create, path, a). The dicts are changed in place, so the
\* result holds the outcome and a as it is afterwards.
RECURSIVE reduce_get_or_create(_, _)
reduce_get_or_create(a, p) ==
    IF p = <<>> THEN [out |-> Return(a), data |-> a]
    ELSE IF ~IsDict(a) THEN [out |-> Raise("TypeError", <<>>), data |-> a]
    ELSE LET b == Head(p)
             a1 == IF b \notin DOMAIN a.m THEN Put(a.m, b, EmptyDict) ELSE a.m
             r == reduce_get_or_create(a1[b], Tail(p))
         IN  [out |-> r.out, data |-> Dict(Put(a1, b, r.data))]

get_by_path(d, p, create_nested) ==
    IF create_nested THEN reduce_get_or_create(d, p)
    ELSE [out |-> reduce_getitem(d, p), data |-> d]

\* d as it is after target[key] = v, target being the dict at ref in d
RECURSIVE setitem_at(_, _, _, _)
setitem_at(d, ref, key, v) ==
    IF ref = <<>> THEN Dict(Put(d.m, key, v))
    ELSE Dict(Put(d.m, Head(ref), setitem_at(d.m[Head(ref)], Tail(ref), key, v)))

\* d as it is after del target[key], target being the dict at ref in d
RECURSIVE delitem_at(_, _, _)
delitem_at(d, ref, key) ==
    IF ref = <<>> THEN Dict(Del(d.m, key))
    ELSE Dict(Put(d.m, Head(ref), delitem_at(d.m[Head(ref)], Tail(ref), key)))

\* set_by_path walking the whole path instead of path[:-1]
set_by_path_whole_path(d, p, v) ==
    LET r == get_by_path(d, p, TRUE)
    IN  IF ~Returned(r.out) THEN r
        ELSE IF p = <<>> THEN [out |-> Raise("IndexError", <<>>), data |-> r.data]
        ELSE IF ~IsDict(r.out.val) THEN [out |-> Raise("TypeError", <<>>), data |-> r.data]
        ELSE [out |-> Return(None), data |-> setitem_at(r.data, p, Last(p), v)]

set_by_path(d, p, v) ==
    LET r == get_by_path(d, ButLast(p), TRUE)
    IN  IF ~Returned(r.out) THEN r
        ELSE IF p = <<>> THEN [out |-> Raise("IndexError", <<>>), data |-> r.data]
        ELSE IF ~IsDict(r.out.val) THEN [out |-> Raise("TypeError", <<>>), data |-> r.data]
        ELSE [out |-> Return(None), data |-> setitem_at(r.data, ButLast(p), Last(p), v)]

\* delete_by_path removing the parent dict as well once it is left empty
delete_by_path_pruning(d, p) ==
    LET r == get_by_path(d, ButLast(p), FALSE)
    IN  IF ~Returned(r.out) THEN r
        ELSE IF p = <<>> THEN [out |-> Raise("IndexError", <<>>), data |-> d]
        ELSE IF ~IsDict(r.out.val) THEN [out |-> Raise("TypeError", <<>>), data |-> d]
        ELSE IF Last(p) \notin DOMAIN r.out.val.m
             THEN [out |-> Raise("KeyError", <<Str(Last(p))>>), data |-> d]
        ELSE IF DOMAIN r.out.val.m = {Last(p)} /\ Len(p) > 1
             THEN [out |-> Return(None),
                   data |-> delitem_at(d, ButLast(ButLast(p)), Last(ButLast(p)))]
        ELSE [out |-> Return(None), data |-> delitem_at(d, ButLast(p), Last(p))]

delete_by_path(d, p) ==
    LET r == get_by_path(d, ButLast(p), FALSE)
    IN  IF ~Returned(r.out) THEN r
        ELSE IF p = <<>> THEN [out |-> Raise("IndexError", <<>>), data |-> d]
        ELSE IF ~IsDict(r.out.val) THEN [out |-> Raise("TypeError", <<>>), data |-> d]
        ELSE IF Last(p) \notin DOMAIN r.out.val.m
             THEN [out |-> Raise("KeyError", <<Str(Last(p))>>), data |-> d]
        ELSE [out |-> Return(None), data |-> delitem_at(d, ButLast(p), Last(p))]

\* ------------------------------------------------------ SpecStore: actions

Ops(h) == [i \in 1..Len(h) |-> h[i].op]

StoreIdle == data = EmptyDict /\ path = <<>> /\ value = None /\ hist = <<>>
CodecIdle == cin = <<>> /\ cout = <<>>
IterIdle == document = EmptyDict /\ items = <<>>
ClientIdle ==
    heap = <<>> /\ self_data = 0 /\ last = None /\ held = None /\ ncalls = 0

StoreInit ==
    /\ data \in Roots
    /\ path \in Paths
    /\ value \in SetValues
    /\ hist = <<>>
    /\ CodecIdle
    /\ IterIdle
    /\ ClientIdle

Call(op, r) ==
    /\ data' = r.data
    /\ hist' = Append(hist, [op |-> op, pre |-> data, out |-> r.out])
    /\ UNCHANGED <<path, value, codecVars, iterVars, clientVars>>

SetByPath ==
    /\ hist = <<>>
    /\ Call("set", set_by_path(data, path, value))

DeleteByPath ==
    /\ Ops(hist) \in {<<>>, <<"set">>}
    /\ Call("delete", delete_by_path(data, path))

GetByPath ==
    /\ Ops(hist) \in {<<>>, <<"set">>, <<"set", "delete">>}
    /\ Call("get", get_by_path(data, path, FALSE))

StoreNext == SetByPath \/ DeleteByPath \/ GetByPath

SpecStore == StoreInit /\ [][StoreNext]_vars

\* ------------------------------------------------------- SpecStore: claims

Prefixes(p) == {SubSeq(p, 1, n) : n \in 0..Len(p)}
ProperPrefixes(p) == Prefixes(p) \ {p}
IsPrefix(q, p) == q \in Prefixes(p)

\* Every key sequence that can lead somewhere in a dict of the model.
ProbePaths == UNION {[1..n -> Keys] : n \in 0..(MaxDepth + 2)}

\* What is stored at q in d: Return(it), or Raise when nothing is.
At(d, q) == reduce_getitem(d, q)

\* The path is not empty and no value that is not a dict lies on the way to
\* its last key: the inputs set_by_path accepts.
Settable(d, p) ==
    /\ p # <<>>
    /\ \A q \in ProperPrefixes(p) : Returned(At(d, q)) => IsDict(At(d, q).val)

\* The number of leading keys of p that d holds, one after the other.
Consumed(d, p) ==
    CHOOSE n \in 0..Len(p) :
        /\ \A k \in 0..n : Returned(At(d, SubSeq(p, 1, k)))
        /\ n < Len(p) => ~Returned(At(d, SubSeq(p, 1, n + 1)))

\* The keys of p joined with '.', as a sequence of characters.
RECURSIVE Dotted(_)
Dotted(p) ==
    IF p = <<>> THEN <<>>
    ELSE IF Len(p) = 1 THEN Str(p[1])
    ELSE Str(p[1]) \o <<".">> \o Dotted(Tail(p))

SetThenGet == Ops(hist) = <<"set", "get">>
SetDeleteGet == Ops(hist) = <<"set", "delete", "get">>

\* C1: whenever set_by_path(root, p, v) returns, a following
\* get_by_path(root, p) returns exactly v, also when levels along p were
\* missing before the set. set_by_path returns for every non-empty path that
\* no value other than a dict blocks (it raises IndexError for the empty
\* path and TypeError behind a value that is no dict).
C1_SetThenGetReturnsValue ==
    /\ Len(hist) >= 1 /\ hist[1].op = "set"
            => (Returned(hist[1].out) <=> Settable(hist[1].pre, path))
    /\ SetThenGet /\ Returned(hist[1].out) => hist[2].out = Return(value)

\* A set through two levels that did not exist, then the get.
C1_Witness ==
    /\ SetThenGet
    /\ Returned(hist[1].out)
    /\ Len(path) = 3
    /\ ~Returned(At(hist[1].pre, SubSeq(path, 1, 1)))
    /\ hist[2].out = Return(value)

\* C2: after a set_by_path(root, p, v) that returned, delete_by_path(root, p)
\* returns, a following get_by_path(root, p) raises KeyError for the last
\* key of p, every proper prefix of p still leads to a dict, which has the
\* keys it had after the set except, in the parent, the deleted one, and
\* nothing off the path has changed.
C2_DeleteRemovesOnlyLeaf ==
    SetDeleteGet /\ Returned(hist[1].out) =>
        LET set == hist[2].pre
        IN  /\ Returned(hist[2].out)
            /\ hist[3].out = Raise("KeyError", <<Str(Last(path))>>)
            /\ \A q \in ProperPrefixes(path) :
                    /\ Returned(At(data, q))
                    /\ IsDict(At(data, q).val)
                    /\ DOMAIN At(data, q).val.m =
                           DOMAIN At(set, q).val.m
                               \ (IF q = ButLast(path) THEN {Last(path)} ELSE {})
            /\ \A q \in ProbePaths :
                    ~IsPrefix(q, path) /\ ~IsPrefix(path, q) => At(data, q) = At(set, q)

\* The deleted key was the only one of its parent, two levels down: the
\* parent is left behind empty.
C2_Witness ==
    /\ SetDeleteGet
    /\ Returned(hist[1].out)
    /\ Len(path) = 3
    /\ At(data, ButLast(path)) = Return(EmptyDict)
    /\ hist[3].out.kind = "KeyError"

\* C7: a get_by_path or delete_by_path that raises KeyError leaves the root
\* unchanged, and the error names the first missing key and, when keys were
\* consumed before it, their dotted path as well.
C7_KeyErrorNamesKeyAndPrefix ==
    \A i \in 1..Len(hist) :
        hist[i].op \in {"get", "delete"} /\ hist[i].out.kind = "KeyError" =>
            LET n == Consumed(hist[i].pre, path)
                args == hist[i].out.args
                after == IF i < Len(hist) THEN hist[i + 1].pre ELSE data
            IN  /\ after = hist[i].pre
                /\ \E j \in 1..Len(args) : args[j] = Str(path[n + 1])
                /\ n > 0 => \E j \in 1..Len(args) :
                                /\ args[j] = Dotted(SubSeq(path, 1, n))
                                /\ \E k \in 1..Len(args) : k # j /\ args[k] = Str(path[n + 1])

\* --------------------------------------------------- _helpers.py: PathCodec

\* The characters of the model. SANY cannot hold the backtick in a string
\* literal, so the character is named.
_FIELD_PATH_DELIMITER == "."
_BACKSLASH == "\\"
_BACKTICK == "BACKTICK"
_ESCAPED_BACKSLASH == <<_BACKSLASH, _BACKSLASH>>
_ESCAPED_BACKTICK == <<_BACKSLASH, _BACKTICK>>
Letters == {"a"}            \* of [_a-zA-Z]
Digits == {"1"}             \* of [0-9]
FieldChars == Letters \cup Digits \cup {_FIELD_PATH_DELIMITER, _BACKSLASH, _BACKTICK}

Strings(n) == UNION {[1..k -> FieldChars] : k \in 0..n}

\* _SIMPLE_FIELD_NAME: ^[_a-zA-Z][_a-zA-Z0-9]*$
IsSimpleFieldName(name) ==
    /\ name # <<>>
    /\ name[1] \in Letters
    /\ \A i \in 2..Len(name) : name[i] \in Letters \cup Digits

\* TOKENS_REGEX.match(s, pos). Positions are those of Python plus one; a
\* match is given by its end, the position after its last character, and
\* no match by 0.

\* SIMPLE, [_a-zA-Z][_a-zA-Z0-9]*, past its first character: greedy.
RECURSIVE SimpleRest(_, _)
SimpleRest(s, j) ==
    IF j <= Len(s) /\ s[j] \in Letters \cup Digits THEN SimpleRest(s, j + 1) ELSE j

\* QUOTED past its opening backtick: (?:\\BACKTICK|[^BACKTICK])*? and the
\* closing backtick. The lazy star tries the closing backtick first, then an
\* escaped backtick, then, also when what follows the escaped backtick
\* cannot be matched, any character but a backtick.
RECURSIVE QuotedRest(_, _)
QuotedRest(s, j) ==
    IF j > Len(s) THEN 0
    ELSE IF s[j] = _BACKTICK THEN j + 1
    ELSE IF s[j] = _BACKSLASH /\ j + 1 <= Len(s) /\ s[j + 1] = _BACKTICK
         THEN LET e == QuotedRest(s, j + 2)
              IN  IF e # 0 THEN e ELSE QuotedRest(s, j + 1)
    ELSE QuotedRest(s, j + 1)

TokenEnd(s, pos) ==
    IF pos > Len(s) THEN 0
    ELSE IF s[pos] \in Letters THEN SimpleRest(s, pos + 1)
    ELSE IF s[pos] = _BACKTICK THEN QuotedRest(s, pos + 1)
    ELSE IF s[pos] = _FIELD_PATH_DELIMITER THEN pos + 1
    ELSE 0

\* The tokens _tokenize_field_path yields from pos on, and the position it
\* stops at; it then raises ValueError unless that is the end of the path.
RECURSIVE TokensFrom(_, _)
TokensFrom(s, pos) ==
    LET e == TokenEnd(s, pos)
    IN  IF e = 0 THEN [tokens |-> <<>>, pos |-> pos]
        ELSE LET r == TokensFrom(s, e)
             IN  [tokens |-> <<SubSeq(s, pos, e - 1)>> \o r.tokens, pos |-> r.pos]

NotConsumed(s, pos) ==
    Raise("ValueError", <<"Path not consumed, residue", s, SubSeq(s, pos, Len(s))>>)
InvalidPath(s) == Raise("ValueError", <<"Invalid path", s>>)

\* list(_tokenize_field_path(path))
_tokenize_field_path(s) ==
    LET r == TokensFrom(s, 1)
    IN  IF r.pos # Len(s) + 1 THEN NotConsumed(s, r.pos) ELSE Return(r.tokens)

\* The for loop of split_field_path over the tokens left, toks.
RECURSIVE SplitLoop(_, _, _, _)
SplitLoop(s, toks, want_dot, elements) ==
    IF toks = <<>> THEN [out |-> Return(elements), want_dot |-> want_dot]
    ELSE LET element == Head(toks)
         IN  IF want_dot
             THEN IF element # <<_FIELD_PATH_DELIMITER>>
                  THEN [out |-> InvalidPath(s), want_dot |-> want_dot]
                  ELSE SplitLoop(s, Tail(toks), FALSE, elements)
             ELSE IF element = <<_FIELD_PATH_DELIMITER>>
                  THEN [out |-> InvalidPath(s), want_dot |-> want_dot]
                  ELSE SplitLoop(s, Tail(toks), TRUE, Append(elements, element))

\* split_field_path with its last check reduced to 'if not elements'
split_field_path_no_want_dot(s) ==
    IF s = <<>> THEN Return(<<>>)
    ELSE LET t == TokensFrom(s, 1)
             r == SplitLoop(s, t.tokens, FALSE, <<>>)
         IN  IF ~Returned(r.out) THEN r.out
             ELSE IF t.pos # Len(s) + 1 THEN NotConsumed(s, t.pos)
             ELSE IF r.out.val = <<>> THEN InvalidPath(s)
             ELSE r.out

\* The loop draws the tokens from the generator one by one, so it raises at
\* the first token out of place before the generator can raise for what it
\* did not consume.
split_field_path(s) ==
    IF s = <<>> THEN Return(<<>>)
    ELSE LET t == TokensFrom(s, 1)
             r == SplitLoop(s, t.tokens, FALSE, <<>>)
         IN  IF ~Returned(r.out) THEN r.out
             ELSE IF t.pos # Len(s) + 1 THEN NotConsumed(s, t.pos)
             ELSE IF ~r.want_dot \/ r.out.val = <<>> THEN InvalidPath(s)
             ELSE r.out

\* s.replace(old, new) for a two-character old and a one-character new
RECURSIVE Replace(_, _, _)
Replace(s, old, new) ==
    IF Len(s) < 2 THEN s
    ELSE IF SubSeq(s, 1, 2) = old THEN <<new>> \o Replace(SubSeq(s, 3, Len(s)), old, new)
    ELSE <<s[1]>> \o Replace(Tail(s), old, new)

\* The body of parse_field_path's loop for one element
Unquote(field_name) ==
    IF field_name[1] = _BACKTICK /\ field_name[Len(field_name)] = _BACKTICK
    THEN Replace(Replace(SubSeq(field_name, 2, Len(field_name) - 1),
                         _ESCAPED_BACKTICK, _BACKTICK),
                 _ESCAPED_BACKSLASH, _BACKSLASH)
    ELSE field_name

parse_field_path(api_repr) ==
    LET r == split_field_path(api_repr)
    IN  IF ~Returned(r) THEN r
        ELSE Return([i \in 1..Len(r.val) |-> Unquote(r.val[i])])

\* render_field_path of google.cloud.firestore_v1.field_path, which
\* MockFirestore.field_path returns: a simple name as it is, any other in
\* backticks with each backslash and each backtick behind a backslash, the
\* names joined with '.'.
RECURSIVE Escape(_)
Escape(name) ==
    IF name = <<>> THEN <<>>
    ELSE (IF name[1] \in {_BACKSLASH, _BACKTICK} THEN <<_BACKSLASH, name[1]>> ELSE <<name[1]>>)
         \o Escape(Tail(name))

RenderName(name) ==
    IF IsSimpleFieldName(name) THEN name ELSE <<_BACKTICK>> \o Escape(name) \o <<_BACKTICK>>

RECURSIVE render_field_path(_)
render_field_path(field_names) ==
    IF field_names = <<>> THEN <<>>
    ELSE IF Len(field_names) = 1 THEN RenderName(field_names[1])
    ELSE RenderName(field_names[1]) \o <<_FIELD_PATH_DELIMITER>>
             \o render_field_path(Tail(field_names))

field_path(field_names) == render_field_path(field_names)

\* ------------------------------------------------------ SpecSplit: actions

CodecCall(op, out) ==
    /\ cout' = Append(cout, [op |-> op, out |-> out])
    /\ UNCHANGED <<cin, storeVars, iterVars, clientVars>>

SplitInit ==
    /\ cin \in Strings(MaxStrLen)
    /\ cout = <<>>
    /\ StoreIdle
    /\ IterIdle
    /\ ClientIdle

TokenizeFieldPath ==
    /\ cout = <<>>
    /\ CodecCall("tokenize", _tokenize_field_path(cin))

SplitFieldPath ==
    /\ cout = <<>>
    /\ CodecCall("split", split_field_path(cin))

ParseFieldPath ==
    /\ cout = <<>>
    /\ CodecCall("parse", parse_field_path(cin))

SplitNext == TokenizeFieldPath \/ SplitFieldPath \/ ParseFieldPath

SpecSplit == SplitInit /\ [][SplitNext]_vars

\* -------------------------------------------------- SpecRoundTrip: actions

FieldNames == UNION {[1..k -> FieldChars] : k \in 0..MaxNameLen}

RoundTripInit ==
    /\ cin \in UNION {[1..n -> FieldNames] : n \in 0..MaxNames}
    /\ cout = <<>>
    /\ StoreIdle
    /\ IterIdle
    /\ ClientIdle

FieldPath ==
    /\ cout = <<>>
    /\ CodecCall("field_path", Return(field_path(cin)))

ParseRendered ==
    /\ Ops(cout) = <<"field_path">>
    /\ CodecCall("parse", parse_field_path(cout[1].out.val))

RoundTripNext == FieldPath \/ ParseRendered

SpecRoundTrip == RoundTripInit /\ [][RoundTripNext]_vars

\* ------------------------------------------------------- SpecSplit: claims

IsDot(tok) == tok = <<_FIELD_PATH_DELIMITER>>

\* The tokens are element, '.', element, ..., element.
Alternates(toks) ==
    /\ Len(toks) % 2 = 1
    /\ \A i \in 1..Len(toks) : IsDot(toks[i]) <=> i % 2 = 0

ElementsOf(toks) == [i \in 1..((Len(toks) + 1) \div 2) |-> toks[2 * i - 1]]

\* C6: split_field_path returns the empty list for the empty string; for any
\* other string it returns the element tokens when the string lexes into
\* tokens that alternate element, '.', element, ... from an element to an
\* element, and raises ValueError otherwise: for a lone, a leading or a
\* trailing '.', for two '.' tokens in a row and for two elements in a row.
C6_SplitAlternation ==
    Ops(cout) = <<"split">> =>
        LET out == cout[1].out
            lexed == _tokenize_field_path(cin)
        IN  IF cin = <<>> THEN out = Return(<<>>)
            ELSE /\ IF Returned(lexed) /\ Alternates(lexed.val)
                    THEN out = Return(ElementsOf(lexed.val))
                    ELSE out.kind = "ValueError"
                 /\ cin[1] = _FIELD_PATH_DELIMITER => out.kind = "ValueError"
                 /\ cin[Len(cin)] = _FIELD_PATH_DELIMITER => out.kind = "ValueError"
                 /\ Returned(lexed) =>
                        \A i \in 1..(Len(lexed.val) - 1) :
                            (IsDot(lexed.val[i]) <=> IsDot(lexed.val[i + 1]))
                                => out.kind = "ValueError"

\* A path of a simple and a quoted element is split in two.
C6_Witness ==
    /\ Ops(cout) = <<"split">>
    /\ Len(cin) = MaxStrLen
    /\ Returned(cout[1].out)
    /\ Len(cout[1].out.val) = 2
    /\ \E i \in 1..2 : cout[1].out.val[i][1] = _BACKTICK

\* --------------------------------------------------- SpecRoundTrip: claims

KeyOrder == <<"a", "b">>
DictKeys(d) == SelectSeq(KeyOrder, LAMBDA k : k \in DOMAIN d.m)

\* '{}.{}'.format(prefix, key)
Format(prefix, key) == prefix \o <<".">> \o Str(key)

\* The for loop of get_document_iterator(d, prefix) over the keys left.
RECURSIVE IterateFrom(_, _, _)
IterateFrom(d, prefix, keys) ==
    IF keys = <<>> THEN <<>>
    ELSE LET key == Head(keys)
             val == d.m[key]
         IN  (IF IsDict(val) THEN IterateFrom(val, Str(key), DictKeys(val)) ELSE <<>>)
             \o <<[path |-> IF prefix = <<>> THEN Str(key) ELSE Format(prefix, key),
                   value |-> val]>>
             \o IterateFrom(d, prefix, Tail(keys))

\* list(get_document_iterator(d, prefix))
get_document_iterator(d, prefix) == IterateFrom(d, prefix, DictKeys(d))

\* ------------------------------------------------------- SpecIter: actions

Documents == {x \in ValuesUpTo(MaxDocDepth) : IsDict(x)}

IterInit ==
    /\ document \in Documents
    /\ items = <<>>
    /\ StoreIdle
    /\ CodecIdle
    /\ ClientIdle

GetDocumentIterator ==
    /\ Len(items) < 2
    /\ items' = Append(items, get_document_iterator(document, <<>>))
    /\ UNCHANGED <<document, storeVars, codecVars, clientVars>>

IterNext == GetDocumentIterator

SpecIter == IterInit /\ [][IterNext]_vars

\* -------------------------------------------------------- SpecIter: claims

\* The key sequences that lead to a value in d: one for each key of d and of
\* the dicts nested in it.
KeyPaths(d) ==
    {q \in UNION {[1..n -> Keys] : n \in 1..(MaxDocDepth + 1)} : Returned(At(d, q))}

\* C8: get_document_iterator yields one pair for each key at every depth,
\* and the pair holds the key's dot path from the document's root and the
\* value found there.
C8_IteratorQualifiedPaths ==
    \A c \in 1..Len(items) :
        /\ Len(items[c]) = Cardinality(KeyPaths(document))
        /\ \A q \in KeyPaths(document) :
               \E i \in 1..Len(items[c]) :
                   items[c][i] = [path |-> Dotted(q), value |-> At(document, q).val]

\* ------------------------------------------------ client.py: MockFirestore

PathChars == {"a", "/"}
PathStrings == UNION {[1..k -> PathChars] : k \in 0..MaxPathChars}

\* path.split("/")
RECURSIVE Split(_)
Split(s) ==
    IF \A i \in 1..Len(s) : s[i] # "/" THEN <<s>>
    ELSE LET k == CHOOSE i \in 1..Len(s) : s[i] = "/" /\ \A j \in 1..(i - 1) : s[j] # "/"
         IN  <<SubSeq(s, 1, k - 1)>> \o Split(SubSeq(s, k + 1, Len(s)))

MockFirestore == [t |-> "MockFirestore"]
\* CollectionReference(data, path) and DocumentReference(data, path): the
\* dict they hold, by its identity, and their path in it
CollectionReference(id, p) == [t |-> "CollectionReference", data |-> id, path |-> p]
DocumentReference(id, p) == [t |-> "DocumentReference", data |-> id, path |-> p]

\* CollectionReference.document(document_id) of mockfirestore/collection.py:
\* the reference of the document, whose entry it does not create.
CollectionReference_document(d, ref, document_id) ==
    [out |-> Return(DocumentReference(ref.data, ref.path \o <<document_id>>)), data |-> d]

\* DocumentReference.collection(name) of mockfirestore/document.py: the
\* reference of the document's sub-collection, created empty if absent.
DocumentReference_collection(d, ref, name) ==
    LET new_path == ref.path \o <<name>>
        r == IF Returned(reduce_getitem(d, new_path))
             THEN [out |-> Return(None), data |-> d]
             ELSE set_by_path(d, new_path, EmptyDict)
    IN  IF ~Returned(r.out) THEN r
        ELSE [out |-> Return(CollectionReference(ref.data, new_path)), data |-> r.data]

\* MockFirestore.collection creating the collection only when it is there
collection_at_root_inverted(d, id, name) ==
    [out |-> Return(CollectionReference(id, <<name>>)),
     data |-> IF name \in DOMAIN d.m THEN Dict(Put(d.m, name, EmptyDict)) ELSE d]

\* MockFirestore.collection for a path of one segment: the else branch
collection_at_root(d, id, name) ==
    [out |-> Return(CollectionReference(id, <<name>>)),
     data |-> IF name \notin DOMAIN d.m THEN Dict(Put(d.m, name, EmptyDict)) ELSE d]

\* The for loop of _ensure_path over the segments left, els. A segment holds
\* no '/', so self.collection(el) is MockFirestore.collection for a path of
\* one segment.
RECURSIVE EnsureLoop(_, _, _, _)
EnsureLoop(d, id, current_position, els) ==
    IF els = <<>> THEN [out |-> Return(current_position), data |-> d]
    ELSE LET el == Head(els)
             r == IF current_position.t \in {"MockFirestore", "DocumentReference"}
                  THEN IF current_position.t = "MockFirestore"
                       THEN collection_at_root(d, id, el)
                       ELSE DocumentReference_collection(d, current_position, el)
                  ELSE CollectionReference_document(d, current_position, el)
         IN  IF ~Returned(r.out) THEN r
             ELSE EnsureLoop(r.data, id, r.out.val, Tail(els))

_ensure_path(d, id, p) == EnsureLoop(d, id, MockFirestore, ButLast(p))

\* MockFirestore.document raising for an even number of segments
MockFirestore_document_wrong_parity(d, id, s) ==
    LET p == Split(s)
    IN  IF Len(p) % 2 # 1
        THEN [out |-> Raise("Exception", <<"Cannot create document at path", p>>), data |-> d]
        ELSE LET e == _ensure_path(d, id, p)
             IN  IF ~Returned(e.out) THEN e
                 ELSE IF e.out.val.t = "CollectionReference"
                      THEN CollectionReference_document(e.data, e.out.val, Last(p))
                      ELSE [out |-> Raise("AttributeError", <<"document">>), data |-> e.data]

\* MockFirestore.document(path), on the dict d that self._data is bound to,
\* whose identity is id
MockFirestore_document(d, id, s) ==
    LET p == Split(s)
    IN  IF Len(p) % 2 # 0
        THEN [out |-> Raise("Exception", <<"Cannot create document at path", p>>), data |-> d]
        ELSE LET e == _ensure_path(d, id, p)
             IN  IF ~Returned(e.out) THEN e
                 ELSE CollectionReference_document(e.data, e.out.val, Last(p))

\* MockFirestore.collection(path)
MockFirestore_collection(d, id, s) ==
    LET p == Split(s)
        name == Last(p)
    IN  IF Len(p) % 2 # 1
        THEN [out |-> Raise("Exception", <<"Cannot create collection at path", p>>), data |-> d]
        ELSE IF Len(p) > 1
        THEN LET e == _ensure_path(d, id, p)
             IN  IF ~Returned(e.out) THEN e
                 ELSE DocumentReference_collection(e.data, e.out.val, name)
        ELSE collection_at_root(d, id, name)

\* ----------------------------------------------------- SpecClient: actions

\* MockFirestore.__init__
ClientInit ==
    /\ heap = <<EmptyDict>>
    /\ self_data = 1
    /\ last = None
    /\ held = None
    /\ ncalls = 0
    /\ StoreIdle
    /\ CodecIdle
    /\ IterIdle

IsCall(c) == c.t = "call"
IsReference(x) == x.t \in {"CollectionReference", "DocumentReference"}

ClientCall(op, arg, r) ==
    /\ ncalls < MaxCalls
    /\ ncalls' = ncalls + 1
    /\ last' = [t |-> "call", op |-> op, arg |-> arg, pre |-> heap[self_data],
                pre_data |-> self_data, out |-> r.out]
    /\ held' = IF IsCall(last) /\ Returned(last.out) /\ IsReference(last.out.val)
               THEN last.out.val
               ELSE None
    /\ UNCHANGED <<storeVars, codecVars, iterVars>>

Document ==
    \E s \in PathStrings :
        LET r == MockFirestore_document(heap[self_data], self_data, s)
        IN  /\ ClientCall("document", s, r)
            /\ heap' = [heap EXCEPT ![self_data] = r.data]
            /\ UNCHANGED self_data

Collection ==
    \E s \in PathStrings :
        LET r == MockFirestore_collection(heap[self_data], self_data, s)
        IN  /\ ClientCall("collection", s, r)
            /\ heap' = [heap EXCEPT ![self_data] = r.data]
            /\ UNCHANGED self_data

\* self._data = {}: the name is bound to a new dict
Reset ==
    /\ ClientCall("reset", <<>>, [out |-> Return(None)])
    /\ heap' = Append(heap, EmptyDict)
    /\ self_data' = Len(heap) + 1

ClientNext == Collection \/ Document \/ Reset

SpecClient == ClientInit /\ [][ClientNext]_vars

\* ------------------------------------------------------ SpecClient: claims

\* The number of segments of a location path string: one more than its '/'.
SegmentCount(s) == 1 + Cardinality({i \in 1..Len(s) : s[i] = "/"})

\* The string is empty, or starts or ends with '/', or holds '//'.
HasEmptySegment(s) ==
    \/ s = <<>>
    \/ s[1] = "/"
    \/ s[Len(s)] = "/"
    \/ \E i \in 1..(Len(s) - 1) : s[i] = "/" /\ s[i + 1] = "/"

ParityError(out) ==
    /\ out.kind = "Exception"
    /\ out.args[1] \in {"Cannot create document at path", "Cannot create collection at path"}

LastIs(op) == IsCall(last) /\ last.op = op

\* C3: document(path) raises its parity error exactly when path has an odd
\* number of segments, collection(path) exactly when it has an even number.
C3_ParityErrors ==
    /\ LastIs("document") => (ParityError(last.out) <=> SegmentCount(last.arg) % 2 = 1)
    /\ LastIs("collection") => (ParityError(last.out) <=> SegmentCount(last.arg) % 2 = 0)

\* document("a/a") has returned the reference of document a in collection a.
C3_Witness ==
    /\ LastIs("document")
    /\ last.arg = <<"a", "/", "a">>
    /\ last.out = Return(DocumentReference(self_data, <<<<"a">>, <<"a">>>>))

\* C4: document(path) and collection(path) raise and leave the Store as it
\* was for the empty path and for every path with an empty segment.
C4_EmptySegmentsRejected ==
    (LastIs("document") \/ LastIs("collection")) /\ HasEmptySegment(last.arg) =>
        /\ ~Returned(last.out)
        /\ self_data = last.pre_data
        /\ heap[self_data] = last.pre
        /\ <<>> \notin DOMAIN heap[self_data].m

\* C9: after reset() self._data is the dict it was before, now empty, so that
\* a collection reference (of a path without empty names) the caller got
\* before the reset sees the empty Store.
C9_ResetInPlace ==
    LastIs("reset") =>
        /\ heap[self_data] = EmptyDict
        /\ held.t = "CollectionReference" /\ <<>> \notin {held.path[i] : i \in 1..Len(held.path)} =>
               /\ self_data = last.pre_data
               /\ held.data = self_data
               /\ heap[held.data] = EmptyDict

\* C10: collection(name) for a name of one segment creates an empty dict
\* under name when the Store has none and otherwise leaves the Store as it
\* is, and returns the reference of name in the Store; called again for the
\* same name with no reset in between, it returns an equal reference, over
\* the same dict, and changes nothing.
C10_CollectionCreatedOnce ==
    LastIs("collection") /\ SegmentCount(last.arg) = 1 =>
        LET name == last.arg
        IN  /\ self_data = last.pre_data
            /\ heap[self_data] =
                   IF name \in DOMAIN last.pre.m THEN last.pre
                   ELSE Dict(Put(last.pre.m, name, EmptyDict))
            /\ last.out = Return(CollectionReference(self_data, <<name>>))
            /\ held = CollectionReference(self_data, <<name>>) =>
                   heap[self_data] = last.pre /\ name \in DOMAIN last.pre.m

\* collection("a") twice: the second call returns the reference the first
\* one returned.
C10_Witness ==
    /\ LastIs("collection")
    /\ last.arg = <<"a">>
    /\ held = last.out.val
    /\ heap[self_data] = Dict([n \in {<<"a">>} |-> EmptyDict])

====
